---- MODULE Spec2Model ----
(***************************************************************************)
(* drysql: a facade over database/sql.  Three revisions of the module are  *)
(* in the repository (src/drysql.go, src/unnamed/part_000,                 *)
(* src/unnamed/part_001); the variable rev says which one is running.      *)
(* One call runs at a time (the library is synchronous); its steps are the *)
(* statements of the Go functions, the executor's and the caller's         *)
(* answers (errors, row counts, scanner results) are chosen by \E.         *)
(* Text is a sequence of one-character strings, so that concatenation and  *)
(* case folding are computed as the code computes them.                    *)
(***************************************************************************)
EXTENDS Integers, Sequences, FiniteSets, TLC

VARIABLES
  rev,                 \* the revision of the module that is running
  SqlLogger,           \* part_001:29  TRUE iff an observer is registered
  op,                  \* the exported function the caller invoked
  pc,                  \* position inside the running call
  query,               \* the query parameter / local of the running call
  inputs,              \* []interface{} bound to the statement
  args,                \* ExecWithoutPrepare's variadic args (caller's view)
  updateStruct,        \* the record: sequence of [tag, val] fields
  rowIdentifierTag,    \* identifier column name
  optionalConditional, \* extra filter text
  i,                   \* loop index of UpdateTableRowFromStruct (1-based)
  columnsToUpdate,     \* assignment clause built so far
  rowIdentifierValue,  \* value bound to the WHERE placeholder
  stmtOut,             \* "none" | "open" | "closed"
  rows,                \* "none" | "nil" | "open" | "closed"
  rowsLeft,            \* rows the cursor still holds
  defers,              \* deferred calls of the running function (LIFO)
  err,                 \* the call's result: "none" while running
  built,               \* TRUE once UpdateTableRowFromStruct handed off
  trace,               \* executor / observer / scanner calls of this call
  recvQuery,           \* query text the executor last received
  recvArgs             \* argument list the executor last received

vars == << rev, SqlLogger, op, pc, query, inputs, args, updateStruct,
           rowIdentifierTag, optionalConditional, i, columnsToUpdate,
           rowIdentifierValue, stmtOut, rows, rowsLeft, defers, err, built,
           trace, recvQuery, recvArgs >>

----------------------------------------------------------------------------
(* Bounds *)
MaxFields == 3
MaxRows == 2
MaxArgs == 2

(* Revisions *)
RevGo == "drysql.go"
Rev0 == "part_000"
Rev1 == "part_001"
Revisions == {RevGo, Rev0, Rev1}

(* Go values.  A value is <<kind, payload>>. *)
Nil == <<"nil", 0>>
NilPtr == <<"nilptr", 0>>
Int7 == <<"int", 7>>
Str == <<"string", "Ann">>
PtrStr == <<"ptr", Str>>
Chan == <<"chan", 0>>
RawValues == {NilPtr, Int7, PtrStr, Chan}

(* Text *)
Empty == <<>>
TagId == <<"i", "d">>
TagIdUpper == <<"I", "D">>
TagA == <<"a">>
TagB == <<"b">>
Tags == {Empty, TagId, TagA, TagB}
IdentifierTags == {TagId, TagIdUpper}
Filters == {Empty, <<"x", "=", "1">>}
tableName == <<"t">>
Fields == [tag : Tags, val : RawValues]
Records == UNION {[1..n -> Fields] : n \in 0..MaxFields}
BoundValues == {<<"int64", 7>>, Str}
ArgLists == UNION {[1..n -> BoundValues] : n \in 0..MaxArgs}
Queries == {<<"q">>}

----------------------------------------------------------------------------
(* Pure helpers *)

(* unicode.ToLower on the letters the model uses *)
Lower(c) == CASE c = "I" -> "i" [] c = "D" -> "d" [] OTHER -> c

(* strings.EqualFold *)
EqualFold(s, t) ==
  /\ Len(s) = Len(t)
  /\ \A k \in 1..Len(s) : Lower(s[k]) = Lower(t[k])

(* driver.DefaultParameterConverter.ConvertValue: a nil pointer is nil, a   *)
(* pointer converts as what it points to, an int widens to int64, a string  *)
(* stays, any other kind (a chan here) is "unsupported type".               *)
RECURSIVE ConvertValue(_)
ConvertValue(v) ==
  CASE v[1] = "nilptr" -> [err |-> FALSE, val |-> Nil]
    [] v[1] = "ptr"    -> ConvertValue(v[2])
    [] v[1] = "int"    -> [err |-> FALSE, val |-> <<"int64", v[2]>>]
    [] v[1] = "string" -> [err |-> FALSE, val |-> v]
    [] OTHER           -> [err |-> TRUE, val |-> Nil]

sUPDATE == <<"U", "P", "D", "A", "T", "E", " ">>
sSET == <<" ", "S", "E", "T", " ">>
sWHERE == <<" ", "W", "H", "E", "R", "E", " ">>
sEqQ == <<" ", "=", " ", "?">>
sComma == <<",", " ">>
sAND == <<" ", "A", "N", "D", " ">>

(* strings.EqualFold(columnKey, rowIdentifierTag) *)
IsIdentifierStrict(columnKey, idTag) == columnKey = idTag
IsIdentifier(columnKey, idTag) == EqualFold(columnKey, idTag)

(* rowIdentifierValue = columnValue *)
FirstIdentifierValue(old, columnValue) == IF old = Nil THEN columnValue ELSE old
NextIdentifierValue(old, columnValue) == columnValue

(* columnsToUpdate += ", " (unless empty); columnsToUpdate += columnKey + " = ?" *)
AppendColumn(cols, columnKey) ==
  (IF Len(cols) # 0 THEN cols \o sComma ELSE cols) \o columnKey \o sEqQ

(* if len(inputs) == 0 *)
NeverNothingToUpdate(in) == FALSE
NothingToUpdate(in) == Len(in) = 0

(* what the call returns when there is nothing to update *)
NoFieldsResult(r) == IF r = Rev1 THEN "nil" ELSE "ErrNoFields"

(* part_001 prefixes a non-empty conditional with " AND "; drysql.go      *)
(* appends the caller's text as it is.                                     *)
Conditional(r, c) ==
  IF r = Rev1 THEN (IF Len(c) > 0 THEN sAND \o c ELSE c) ELSE c

(* query := "UPDATE " + tableName + " SET " + columnsToUpdate + " WHERE " + *)
(*          rowIdentifierTag + " = ?" + optionalConditional                 *)
BuildQuery(table, cols, idTag, cond) ==
  sUPDATE \o table \o sSET \o cols \o sWHERE \o idTag \o sEqQ \o cond

(* defer stmtOut.Close() exists in part_001 only *)
DeferStmtClose(r, d) == IF r = Rev1 THEN Append(d, "Stmt.Close") ELSE d

(* if rows != nil { defer rows.Close() } *)
DeferRowsCloseNever(d) == d
DeferRowsClose(d) == Append(d, "Rows.Close")

(* if SqlLogger != nil { SqlLogger.AddSqlRead() / AddSqlWrite() } *)
LogAlwaysWrite(r, logger, call) == IF r = Rev1 /\ logger THEN <<"AddSqlWrite">> ELSE <<>>
Log(r, logger, call) == IF r = Rev1 /\ logger THEN <<call>> ELSE <<>>

(* drysql.sqlImpl.Exec(query, args) in part_001: the slice itself is the    *)
(* one variadic argument; drysql.sqlImpl.Exec(query) in the other revisions *)
ForwardArgs(r, a) == IF r = Rev1 THEN << <<"slice", a>> >> ELSE <<>>

(* the scanner loop stops at the first scanner error *)
AfterScanner(e) == IF e THEN "ret" ELSE "Next"

Count(s, e) == Cardinality({k \in 1..Len(s) : s[k] = e})

----------------------------------------------------------------------------
(* State machine *)

Init ==
  /\ rev \in Revisions
  /\ SqlLogger \in BOOLEAN
  /\ SqlLogger => rev = Rev1
  /\ op = "none" /\ pc = "idle"
  /\ query = Empty /\ inputs = <<>> /\ args = <<>>
  /\ updateStruct = <<>> /\ rowIdentifierTag = Empty
  /\ optionalConditional = Empty
  /\ i = 0 /\ columnsToUpdate = Empty /\ rowIdentifierValue = Nil
  /\ stmtOut = "none" /\ rows = "none" /\ rowsLeft = 0
  /\ defers = <<>> /\ err = "none" /\ built = FALSE
  /\ trace = <<>> /\ recvQuery = Empty /\ recvArgs = <<>>

updateLocals == << updateStruct, rowIdentifierTag, optionalConditional, i,
                   columnsToUpdate, rowIdentifierValue, built >>
config == << rev, SqlLogger >>

(* ---- the caller invokes an exported function ---- *)

CallPreparedExec ==
  /\ pc = "idle"
  /\ \E q \in Queries, in \in ArgLists :
       /\ op' = "PreparedExec" /\ pc' = "PE.Prepare"
       /\ query' = q /\ inputs' = in
  /\ UNCHANGED << config, args, updateLocals, stmtOut, rows, rowsLeft,
                  defers, err, trace, recvQuery, recvArgs >>

CallQueryRow ==
  /\ pc = "idle"
  /\ \E q \in Queries, in \in ArgLists :
       /\ op' = "QueryRow" /\ pc' = "QR.Prepare"
       /\ query' = q /\ inputs' = in
  /\ UNCHANGED << config, args, updateLocals, stmtOut, rows, rowsLeft,
                  defers, err, trace, recvQuery, recvArgs >>

CallPreparedQuery ==
  /\ pc = "idle"
  /\ \E q \in Queries, in \in ArgLists :
       /\ op' = "PreparedQuery" /\ pc' = "PQ.Prepare"
       /\ query' = q /\ inputs' = in
  /\ UNCHANGED << config, args, updateLocals, stmtOut, rows, rowsLeft,
                  defers, err, trace, recvQuery, recvArgs >>

CallQueryWithoutPrepare ==
  /\ pc = "idle"
  /\ \E q \in Queries :
       /\ op' = "QueryWithoutPrepare" /\ pc' = "QW.Query"
       /\ query' = q
  /\ UNCHANGED << config, inputs, args, updateLocals, stmtOut, rows, rowsLeft,
                  defers, err, trace, recvQuery, recvArgs >>

(* UpdateTableRowFromStruct does not exist in part_000 *)
CallUpdateTableRowFromStruct ==
  /\ pc = "idle"
  /\ rev \in {RevGo, Rev1}
  /\ \E rec \in Records, id \in IdentifierTags, f \in Filters :
       /\ updateStruct' = rec
       /\ rowIdentifierTag' = id
       /\ optionalConditional' = f
  /\ op' = "UpdateTableRowFromStruct" /\ pc' = "U.Loop"
  /\ i' = 1
  /\ UNCHANGED << config, query, inputs, args, columnsToUpdate,
                  rowIdentifierValue, built, stmtOut, rows, rowsLeft, defers,
                  err, trace, recvQuery, recvArgs >>

(* ---- ExecWithoutPrepare: one statement.  Only part_001 takes args. ---- *)
ExecWithoutPrepare ==
  /\ pc = "idle"
  /\ \E q \in Queries, a \in ArgLists, ok \in BOOLEAN :
       /\ rev = Rev1 \/ a = <<>>
       /\ op' = "ExecWithoutPrepare" /\ pc' = "ret"
       /\ query' = q /\ args' = a
       /\ trace' = Append(trace, "Exec")
       /\ recvQuery' = q
       /\ recvArgs' = ForwardArgs(rev, a)
       /\ err' = IF ok THEN "nil" ELSE "ErrExec"
  /\ UNCHANGED << config, inputs, updateLocals, stmtOut, rows, rowsLeft,
                  defers >>

(* ---- Prepare, defer Close, log: shared shape of the three wrappers ---- *)
PrepareStep(at, logCall, next) ==
  /\ pc = at
  /\ recvQuery' = query
  /\ \E ok \in BOOLEAN :
       IF ok
       THEN /\ trace' = Append(trace, "Prepare") \o Log(rev, SqlLogger, logCall)
            /\ stmtOut' = "open"
            /\ defers' = DeferStmtClose(rev, defers)
            /\ pc' = next
            /\ err' = err
       ELSE /\ trace' = Append(trace, "Prepare")
            /\ err' = "ErrPrepare"
            /\ pc' = "ret"
            /\ UNCHANGED << stmtOut, defers >>
  /\ UNCHANGED << config, op, query, inputs, args, updateLocals, rows,
                  rowsLeft, recvArgs >>

PreparedExec_Prepare == PrepareStep("PE.Prepare", "AddSqlWrite", "PE.Exec")
QueryRow_Prepare == PrepareStep("QR.Prepare", "AddSqlRead", "QR.Scan")
PreparedQuery_Prepare == PrepareStep("PQ.Prepare", "AddSqlRead", "PQ.Query")

(* return stmtOut.Exec(inputs...) *)
PreparedExec_Exec ==
  /\ pc = "PE.Exec"
  /\ trace' = Append(trace, "Stmt.Exec")
  /\ recvArgs' = inputs
  /\ \E ok \in BOOLEAN : err' = IF ok THEN "nil" ELSE "ErrExec"
  /\ pc' = "ret"
  /\ UNCHANGED << config, op, query, inputs, args, updateLocals, stmtOut,
                  rows, rowsLeft, defers, recvQuery >>

(* row := stmtOut.QueryRow(inputs...); return row.Scan(outputs...) *)
QueryRow_Scan ==
  /\ pc = "QR.Scan"
  /\ trace' = trace \o <<"Stmt.QueryRow", "Row.Scan">>
  /\ recvArgs' = inputs
  /\ \E ok \in BOOLEAN : err' = IF ok THEN "nil" ELSE "ErrScan"
  /\ pc' = "ret"
  /\ UNCHANGED << config, op, query, inputs, args, updateLocals, stmtOut,
                  rows, rowsLeft, defers, recvQuery >>

(* rows, err = stmtOut.Query(inputs...): *sql.Stmt answers rows or an error *)
PreparedQuery_Query ==
  /\ pc = "PQ.Query"
  /\ trace' = Append(trace, "Stmt.Query")
  /\ recvArgs' = inputs
  /\ \E ok \in BOOLEAN, n \in 0..MaxRows :
       IF ok
       THEN /\ rows' = "open" /\ rowsLeft' = n
            /\ defers' = DeferRowsClose(defers)
            /\ pc' = "Next" /\ err' = err
       ELSE /\ n = 0
            /\ err' = "ErrQuery" /\ pc' = "ret"
            /\ UNCHANGED << rows, rowsLeft, defers >>
  /\ UNCHANGED << config, op, query, inputs, args, updateLocals, stmtOut,
                  recvQuery >>

(* rows, err = drysql.sqlImpl.Query(query): the executor is an interface,   *)
(* it may also answer (nil, nil)                                            *)
QueryWithoutPrepare_Query ==
  /\ pc = "QW.Query"
  /\ trace' = Append(trace, "Query")
  /\ recvQuery' = query
  /\ recvArgs' = <<>>
  /\ \E out \in {"err", "nil", "rows"}, n \in 0..MaxRows :
       CASE out = "rows" ->
              /\ rows' = "open" /\ rowsLeft' = n
              /\ defers' = DeferRowsClose(defers)
              /\ pc' = "Next" /\ err' = err
         [] out = "nil" ->
              /\ n = 0
              /\ rows' = "nil" /\ pc' = "Next"
              /\ UNCHANGED << rowsLeft, defers, err >>
         [] OTHER ->
              /\ n = 0
              /\ err' = "ErrQuery" /\ pc' = "ret"
              /\ UNCHANGED << rows, rowsLeft, defers >>
  /\ UNCHANGED << config, op, query, inputs, args, updateLocals, stmtOut >>

(* for rows.Next() { ... }: Next on a nil *sql.Rows panics *)
RowsNext ==
  /\ pc = "Next"
  /\ IF rows = "nil"
     THEN /\ err' = "panic" /\ pc' = "ret"
          /\ UNCHANGED << trace, rowsLeft >>
     ELSE /\ trace' = Append(trace, "Rows.Next")
          /\ IF rowsLeft > 0
             THEN rowsLeft' = rowsLeft - 1 /\ pc' = "scanner"
             ELSE rowsLeft' = rowsLeft /\ pc' = "Err"
          /\ err' = err
  /\ UNCHANGED << config, op, query, inputs, args, updateLocals, stmtOut,
                  rows, defers, recvQuery, recvArgs >>

(* if err = scanner(rows); err != nil { return err } *)
Scanner ==
  /\ pc = "scanner"
  /\ \E e \in BOOLEAN :
       /\ trace' = Append(trace, IF e THEN "scanner.err" ELSE "scanner")
       /\ err' = IF e THEN "ErrScanner" ELSE err
       /\ pc' = AfterScanner(e)
  /\ UNCHANGED << config, op, query, inputs, args, updateLocals, stmtOut,
                  rows, rowsLeft, defers, recvQuery, recvArgs >>

(* return rows.Err() *)
RowsErr ==
  /\ pc = "Err"
  /\ trace' = Append(trace, "Rows.Err")
  /\ \E ok \in BOOLEAN : err' = IF ok THEN "nil" ELSE "ErrRows"
  /\ pc' = "ret"
  /\ UNCHANGED << config, op, query, inputs, args, updateLocals, stmtOut,
                  rows, rowsLeft, defers, recvQuery, recvArgs >>

(* ---- UpdateTableRowFromStruct ---- *)

(* one iteration of the loop over the struct's fields *)
Update_Field ==
  /\ pc = "U.Loop"
  /\ i <= Len(updateStruct)
  /\ LET field == updateStruct[i]
         conv == ConvertValue(field.val)
         columnValue == conv.val
         columnKey == field.tag
     IN IF conv.err
        THEN /\ err' = "ErrConvert" /\ pc' = "ret"
             /\ UNCHANGED << i, columnsToUpdate, inputs, rowIdentifierValue >>
        ELSE /\ i' = i + 1
             /\ UNCHANGED << err, pc >>
             /\ IF columnValue # Nil /\ columnKey # Empty
                THEN IF IsIdentifier(columnKey, rowIdentifierTag)
                     THEN /\ rowIdentifierValue' =
                               NextIdentifierValue(rowIdentifierValue, columnValue)
                          /\ UNCHANGED << columnsToUpdate, inputs >>
                     ELSE /\ columnsToUpdate' = AppendColumn(columnsToUpdate, columnKey)
                          /\ inputs' = Append(inputs, columnValue)
                          /\ UNCHANGED rowIdentifierValue
                ELSE UNCHANGED << columnsToUpdate, inputs, rowIdentifierValue >>
  /\ UNCHANGED << config, op, query, args, updateStruct, rowIdentifierTag,
                  optionalConditional, built, stmtOut, rows, rowsLeft, defers,
                  trace, recvQuery, recvArgs >>

(* after the loop: nothing to update, or build the statement and call       *)
(* drysql.PreparedExec(query, inputs)                                       *)
Update_Build ==
  /\ pc = "U.Loop"
  /\ i > Len(updateStruct)
  /\ IF NothingToUpdate(inputs)
     THEN /\ err' = NoFieldsResult(rev) /\ pc' = "ret"
          /\ UNCHANGED << inputs, query, built >>
     ELSE /\ inputs' = Append(inputs, rowIdentifierValue)
          /\ query' = BuildQuery(tableName, columnsToUpdate, rowIdentifierTag,
                                 Conditional(rev, optionalConditional))
          /\ built' = TRUE
          /\ pc' = "PE.Prepare"
          /\ err' = err
  /\ UNCHANGED << config, op, args, updateStruct, rowIdentifierTag,
                  optionalConditional, i, columnsToUpdate, rowIdentifierValue,
                  stmtOut, rows, rowsLeft, defers, trace, recvQuery, recvArgs >>

(* ---- function exit: deferred calls run last-in first-out ---- *)
RunDefer ==
  /\ pc = "ret"
  /\ defers # <<>>
  /\ LET d == defers[Len(defers)]
     IN /\ trace' = Append(trace, d)
        /\ defers' = SubSeq(defers, 1, Len(defers) - 1)
        /\ IF d = "Stmt.Close"
           THEN stmtOut' = "closed" /\ rows' = rows
           ELSE rows' = "closed" /\ stmtOut' = stmtOut
  /\ UNCHANGED << config, op, pc, query, inputs, args, updateLocals, rowsLeft,
                  err, recvQuery, recvArgs >>

Return ==
  /\ pc = "ret"
  /\ defers = <<>>
  /\ pc' = "done"
  /\ UNCHANGED << config, op, query, inputs, args, updateLocals, stmtOut,
                  rows, rowsLeft, defers, err, trace, recvQuery, recvArgs >>

(* the caller has its result; the next call starts from a clean slate *)
Reset ==
  /\ pc = "done"
  /\ op' = "none" /\ pc' = "idle"
  /\ query' = Empty /\ inputs' = <<>> /\ args' = <<>>
  /\ updateStruct' = <<>> /\ rowIdentifierTag' = Empty
  /\ optionalConditional' = Empty
  /\ i' = 0 /\ columnsToUpdate' = Empty /\ rowIdentifierValue' = Nil
  /\ stmtOut' = "none" /\ rows' = "none" /\ rowsLeft' = 0
  /\ defers' = <<>> /\ err' = "none" /\ built' = FALSE
  /\ trace' = <<>> /\ recvQuery' = Empty /\ recvArgs' = <<>>
  /\ UNCHANGED config

Next ==
  \/ CallPreparedExec
  \/ CallQueryRow
  \/ CallPreparedQuery
  \/ CallQueryWithoutPrepare
  \/ CallUpdateTableRowFromStruct
  \/ ExecWithoutPrepare
  \/ PreparedExec_Prepare
  \/ QueryRow_Prepare
  \/ PreparedQuery_Prepare
  \/ PreparedExec_Exec
  \/ QueryRow_Scan
  \/ PreparedQuery_Query
  \/ QueryWithoutPrepare_Query
  \/ RowsNext
  \/ Scanner
  \/ RowsErr
  \/ Update_Field
  \/ Update_Build
  \/ RunDefer
  \/ Return
  \/ Reset

Spec == Init /\ [][Next]_vars

----------------------------------------------------------------------------
(* What the specification expects of a record, computed from the record     *)
(* itself and not from the locals of the loop.                              *)

Upper(c) == CASE c = "i" -> "I" [] c = "d" -> "D" [] OTHER -> c
SameColumnIgnoringCase(a, b) ==
  /\ Len(a) = Len(b)
  /\ [k \in 1..Len(a) |-> Upper(a[k])] = [k \in 1..Len(b) |-> Upper(b[k])]

Converts(f) == ~ConvertValue(f.val).err
Normalized(f) == ConvertValue(f.val).val
Present(f) == Converts(f) /\ Normalized(f) # Nil
Tagged(f) == f.tag # Empty
IsIdField(f) == Tagged(f) /\ Present(f) /\ SameColumnIgnoringCase(f.tag, rowIdentifierTag)
IsAssignable(f) == Tagged(f) /\ Present(f) /\ ~SameColumnIgnoringCase(f.tag, rowIdentifierTag)

AssignableFields == SelectSeq(updateStruct, IsAssignable)
IdFields == SelectSeq(updateStruct, IsIdField)
AllConvert == \A k \in 1..Len(updateStruct) : Converts(updateStruct[k])
TaggedConvert == \A k \in 1..Len(updateStruct) :
                    Tagged(updateStruct[k]) => Converts(updateStruct[k])

ExpectedArgs == [k \in 1..Len(AssignableFields) |-> Normalized(AssignableFields[k])]

RECURSIVE JoinAssignments(_)
JoinAssignments(fs) ==
  IF fs = <<>> THEN <<>>
  ELSE IF Len(fs) = 1 THEN fs[1].tag \o sEqQ
  ELSE fs[1].tag \o sEqQ \o sComma \o JoinAssignments(Tail(fs))
ExpectedClause == JoinAssignments(AssignableFields)

ExpectedQuery ==
  sUPDATE \o tableName \o sSET \o ExpectedClause \o sWHERE \o rowIdentifierTag
    \o sEqQ \o (IF optionalConditional = Empty THEN Empty
                ELSE sAND \o optionalConditional)

IsUpdate == op = "UpdateTableRowFromStruct"
Prepared == stmtOut # "none"
ExecutorCalls == {"Prepare", "Exec", "Query", "Stmt.Exec", "Stmt.Query", "Stmt.QueryRow"}
NoExecutorCall == \A k \in 1..Len(trace) : trace[k] \notin ExecutorCalls

----------------------------------------------------------------------------
(* Claims *)

(* C1: in PreparedExec, QueryRow and PreparedQuery a statement returned by  *)
(* a successful Prepare has been closed exactly once when the call returns, *)
(* whatever the exit path.  (Fails in drysql.go and part_000, which never   *)
(* close the statement.)                                                    *)
C1_StatementClosedOnce ==
  (pc = "done" /\ op \in {"PreparedExec", "QueryRow", "PreparedQuery"} /\ Prepared)
    => Count(trace, "Stmt.Close") = 1

(* C1 as it holds of part_001 alone: never closed twice, closed at return.  *)
C1_ClosedOnceInPart001 ==
  (rev = Rev1 /\ Prepared) =>
     /\ Count(trace, "Stmt.Close") <= 1
     /\ pc = "done" => (Count(trace, "Stmt.Close") = 1 /\ stmtOut = "closed")

(* C2: in PreparedQuery and QueryWithoutPrepare a cursor the executor       *)
(* returned is closed exactly once before the call returns; a scanner error *)
(* stops the iteration at that row (nothing but the deferred closes         *)
(* follows it), and is the call's result.                                   *)
C2_CursorClosedOnce ==
  (op \in {"PreparedQuery", "QueryWithoutPrepare"} /\ rows \in {"open", "closed"}) =>
     /\ Count(trace, "Rows.Close") <= 1
     /\ pc = "done" => (Count(trace, "Rows.Close") = 1 /\ rows = "closed")
     /\ \A k \in 1..Len(trace) :
          trace[k] = "scanner.err" =>
             /\ \A j \in (k + 1)..Len(trace) : trace[j] \in {"Rows.Close", "Stmt.Close"}
             /\ pc \in {"ret", "done"}
             /\ err = "ErrScanner"

C2_Witness ==
  /\ pc = "done" /\ op = "PreparedQuery" /\ err = "ErrScanner"
  /\ Count(trace, "scanner") = 1 /\ Count(trace, "scanner.err") = 1
  /\ rowsLeft = 0 /\ rows = "closed"

(* C3: for a record with at least one present, non-identifier tagged field  *)
(* and exactly one present identifier field, the statement that is built    *)
(* has the assignment clause "<column> = ?" of exactly the assignable       *)
(* fields in declaration order, the arguments are their normalized values   *)
(* in that order followed by the identifier's, and the clause has one       *)
(* placeholder less than there are arguments; such a record whose fields    *)
(* all convert is built.                                                    *)
C3_UpdatePlan ==
  (IsUpdate /\ Len(AssignableFields) >= 1 /\ Len(IdFields) = 1) =>
     /\ (pc = "done" /\ AllConvert) => built
     /\ built =>
          /\ columnsToUpdate = ExpectedClause
          /\ inputs = Append(ExpectedArgs, Normalized(IdFields[1]))
          /\ Count(columnsToUpdate, "?") = Len(inputs) - 1
          /\ \A k \in 1..Len(AssignableFields) :
               ~EqualFold(AssignableFields[k].tag, rowIdentifierTag)

C3_Witness ==
  /\ IsUpdate /\ pc = "done" /\ built
  /\ Len(AssignableFields) = 2 /\ Len(IdFields) = 1
  /\ AssignableFields[1].tag # AssignableFields[2].tag
  /\ IdFields[1].tag # rowIdentifierTag
  /\ Len(updateStruct) = 3 /\ updateStruct[2] = IdFields[1]

(* C4: the statement text handed to the executor is                         *)
(* "UPDATE <table> SET <assignments> WHERE <id> = ?", followed by           *)
(* " AND <extraFilter>" when the filter is not empty; the arguments do not  *)
(* depend on the filter.  (Fails in drysql.go, which appends the filter     *)
(* without " AND ".)                                                        *)
C4_StatementText ==
  (IsUpdate /\ built /\ "Prepare" \in {trace[k] : k \in 1..Len(trace)}) =>
     /\ recvQuery = ExpectedQuery
     /\ SubSeq(inputs, 1, Len(inputs) - 1) = ExpectedArgs

(* C4 as it holds of part_001 alone. *)
C4_StatementTextInPart001 == rev = Rev1 => C4_StatementText

(* C5: a field without a column tag is ignored whatever its value: it adds  *)
(* nothing to the text or the arguments and never makes the call fail.      *)
(* (Fails: every field is converted before its tag is read.)                *)
C5_UntaggedIgnored ==
  (IsUpdate /\ TaggedConvert) =>
     /\ err # "ErrConvert"
     /\ built => (columnsToUpdate = ExpectedClause
                  /\ SubSeq(inputs, 1, Len(inputs) - 1) = ExpectedArgs)

(* C6: while UpdateTableRowFromStruct has not handed off, no executor       *)
(* operation has been invoked; a conversion error is returned at the field  *)
(* that fails; with no assignment pair the call returns the no-op outcome   *)
(* and no statement with an empty SET list is ever sent.                    *)
C6_NothingRunsWithoutHandOff ==
  IsUpdate =>
     /\ ~built => NoExecutorCall
     /\ err = "ErrConvert" =>
          /\ ~built /\ NoExecutorCall
          /\ i \in 1..Len(updateStruct) /\ ~Converts(updateStruct[i])
          /\ \A k \in 1..(i - 1) : Converts(updateStruct[k])
     /\ (pc = "done" /\ AllConvert /\ Len(AssignableFields) = 0) =>
          /\ ~built /\ NoExecutorCall
          /\ err = (IF rev = Rev1 THEN "nil" ELSE "ErrNoFields")
     /\ ~NoExecutorCall => ExpectedClause # Empty

C6_Witness ==
  /\ IsUpdate /\ pc = "done" /\ ~built /\ err \in {"nil", "ErrNoFields"}
  /\ Len(IdFields) = 1 /\ Len(updateStruct) = 2
  /\ \E k \in 1..2 : Tagged(updateStruct[k]) /\ updateStruct[k].val = NilPtr

(* C7: a record that compiles is handed to the executor for one             *)
(* non-prepared execution: direct Exec once, Prepare never.  (Fails: the    *)
(* code calls PreparedExec.)                                                *)
C7_SingleDirectExec ==
  (IsUpdate /\ built /\ pc = "done") =>
     /\ Count(trace, "Exec") = 1
     /\ Count(trace, "Prepare") = 0

(* what does hold at hand-off: one Prepare, and the executor's error is     *)
(* the call's result                                                        *)
C7_PreparedHandOff ==
  (IsUpdate /\ built /\ pc = "done") =>
     /\ Count(trace, "Prepare") = 1 /\ Count(trace, "Exec") = 0
     /\ err \in {"nil", "ErrPrepare", "ErrExec"}

(* C8: with an observer registered, a PreparedExec whose Prepare succeeded  *)
(* records one write and no read, a QueryRow or PreparedQuery one read and  *)
(* no write, whatever happens later; with none registered no observer call  *)
(* is made and the call does not fail for it.                               *)
C8_ObserverOncePerPrepare ==
  LET reads == Count(trace, "AddSqlRead")
      writes == Count(trace, "AddSqlWrite")
  IN /\ (SqlLogger /\ Prepared /\ op \in {"PreparedExec", "UpdateTableRowFromStruct"})
          => (writes = 1 /\ reads = 0)
     /\ (SqlLogger /\ Prepared /\ op \in {"QueryRow", "PreparedQuery"})
          => (reads = 1 /\ writes = 0)
     /\ ~Prepared => (reads = 0 /\ writes = 0)
     /\ ~SqlLogger => (reads = 0 /\ writes = 0)
     /\ (~SqlLogger /\ op \in {"PreparedExec", "QueryRow", "PreparedQuery"})
          => err # "panic"

C8_Witness ==
  /\ SqlLogger /\ pc = "done" /\ op = "PreparedQuery" /\ err = "ErrScanner"
  /\ Count(trace, "AddSqlRead") = 1

(* C9: ExecWithoutPrepare hands the executor's Exec exactly the caller's    *)
(* arguments, same number, values and order, with no Prepare.  (Fails in    *)
(* part_001: the slice is passed as one argument.)                          *)
C9_ArgsForwarded ==
  (op = "ExecWithoutPrepare" /\ pc \in {"ret", "done"}) =>
     /\ Len(recvArgs) = Len(args)
     /\ recvArgs = args
     /\ Count(trace, "Prepare") = 0

(* C10 as claimed: with two or more present identifier fields the WHERE     *)
(* argument is the value of the first of them, and none is assigned.        *)
C10_FirstMatchWins ==
  (IsUpdate /\ built /\ Len(IdFields) >= 2) =>
     /\ inputs[Len(inputs)] = Normalized(IdFields[1])
     /\ columnsToUpdate = ExpectedClause

(* C10 amended: with two or more present identifier fields the WHERE        *)
(* argument is the value of the last of them in declaration order, and none *)
(* of them appears in the assignment clause.                                *)
C10_LastMatchWins ==
  (IsUpdate /\ built /\ Len(IdFields) >= 2) =>
     /\ inputs[Len(inputs)] = Normalized(IdFields[Len(IdFields)])
     /\ columnsToUpdate = ExpectedClause
     /\ SubSeq(inputs, 1, Len(inputs) - 1) = ExpectedArgs

C10_Witness ==
  /\ IsUpdate /\ built /\ pc = "done" /\ Len(IdFields) = 2
  /\ Normalized(IdFields[1]) # Normalized(IdFields[2])
  /\ IdFields[1].tag = TagId /\ rowIdentifierTag = TagIdUpper
====
